---- MODULE Spec2Model ----
(***************************************************************************)
(* Model of simupy/matrices.py: construction of explicit symbolic          *)
(* matrices, flattening of matrix substitutions, reconstruction of a       *)
(* matrix trajectory from a vector trajectory, and conversion of a matrix  *)
(* differential equation to a vector-form dynamical system.                *)
(*                                                                         *)
(* Conventions.  Indices are Python's (0-based).  A sympy Matrix is a      *)
(* record [shape |-> <<rows, cols>>, cells |-> f] where f maps <<i, j>> to *)
(* the entry.  A symbol is the string of its name, the sympy zero is the   *)
(* string "0".  A call result is [status, value]: status "ok" for a normal *)
(* return, otherwise the name of the exception that reached the caller.    *)
(***************************************************************************)
EXTENDS Integers, Sequences, FiniteSets, TLC

VARIABLES op, args, t, ret, closure

vars == <<op, args, t, ret, closure>>

(***************************************************************************)
(* Bounds of the model.                                                    *)
(***************************************************************************)
MaxDim == 3

MaxPairs == 2

\* most cells of a raveled layout
MaxCells == 4

\* number of samples of a trajectory, and most times of one batch call
NumSamples == 2

MaxTimes == 2

\* most cells of a state-variable matrix
MaxVarCells == 4

None == [kind |-> "None"]

NoTime == [kind |-> "none", v |-> <<>>]

Zero == "0"

Return(v) == [status |-> "ok", value |-> v]

Raise(e) == [status |-> e, value |-> None]

Cells(n, m) == (0 .. n - 1) \X (0 .. m - 1)

Matrix(n, m, f) == [shape |-> <<n, m>>, cells |-> f]

(***************************************************************************)
(* construct_explicit_matrix                                               *)
(***************************************************************************)
\* sp.symbols(s) / dynamicsymbols(s): a dynamic symbol is a function of time.
symbol_func(dynamic, s) == IF dynamic THEN s \o "(t)" ELSE s

\* name + '_{}{}'.format(a, b)
Format(name, a, b) == name \o "_" \o ToString(a) \o ToString(b)

\* sp.diag(*elems) for scalar elements: a square matrix, zero off the diagonal.
diag(elems) ==
  Matrix(Len(elems), Len(elems),
         [p \in Cells(Len(elems), Len(elems)) |->
            IF p[1] = p[2] THEN elems[p[1] + 1] ELSE Zero])

\* for i in range(1, m): for j in range(i): matrix[i, j] = matrix[j, i]
RECURSIVE SymmetricLoop(_, _, _, _)
SymmetricLoop(cells, i, j, m) ==
  IF i >= m THEN cells
  ELSE IF j >= i THEN SymmetricLoop(cells, i + 1, 0, m)
  ELSE SymmetricLoop([cells EXCEPT ![<<i, j>>] = cells[<<j, i>>]], i, j + 1, m)

\* The shape guard with the symmetric flag forgotten.
construct_explicit_matrix_noSymGuard(name, n, m, symmetric, diagonal, dynamic) ==
  IF n # m /\ diagonal # 0
  THEN Raise("ValueError")
  ELSE IF diagonal # 0
  THEN Return(diag([k \in 1 .. m |->
                      symbol_func(dynamic, Format(name, (k - 1) + 1, (k - 1) + 1))]))
  ELSE LET full == [p \in Cells(n, m) |->
                      symbol_func(dynamic, Format(name, p[1] + 1, p[2] + 1))]
       IN  Return(Matrix(n, m, IF symmetric THEN SymmetricLoop(full, 1, 0, m)
                                ELSE full))

construct_explicit_matrix(name, n, m, symmetric, diagonal, dynamic) ==
  IF n # m /\ (diagonal # 0 \/ symmetric)
  THEN Raise("ValueError")
  ELSE IF diagonal # 0
  THEN Return(diag([k \in 1 .. m |->
                      symbol_func(dynamic, Format(name, (k - 1) + 1, (k - 1) + 1))]))
  ELSE LET full == [p \in Cells(n, m) |->
                      symbol_func(dynamic, Format(name, p[1] + 1, p[2] + 1))]
       IN  Return(Matrix(n, m, IF symmetric THEN SymmetricLoop(full, 1, 0, m)
                                ELSE full))

Names == {"x", "P"}

Init ==
  /\ op = "init"
  /\ args = None
  /\ t = NoTime
  /\ ret = None
  /\ closure = None

CallConstruct ==
  /\ op = "init"
  /\ \E name \in Names, n \in 1 .. MaxDim, m \in 1 .. MaxDim,
        symmetric \in BOOLEAN, diagonal \in {0, 1}, dynamic \in BOOLEAN :
    /\ op' = "construct_explicit_matrix"
    /\ args' = [name |-> name, n |-> n, m |-> m, symmetric |-> symmetric,
                diagonal |-> diagonal, dynamic |-> dynamic]
    /\ t' = NoTime
    /\ closure' = None
    /\ ret' = construct_explicit_matrix(name, n, m, symmetric, diagonal, dynamic)

NextBuilder == CallConstruct

SpecBuilder == Init /\ [][NextBuilder]_vars

Min(a, b) == IF a <= b THEN a ELSE b

Max(a, b) == IF a >= b THEN a ELSE b

\* C9: construct_explicit_matrix raises InvalidShape (ValueError), returning no
\* matrix, exactly when n # m and diagonal or symmetric is set; with n = m and
\* diagonal set the result is zero off the diagonal and carries n pairwise
\* distinct symbols name_{k}{k} on it; with n = m, symmetric set and diagonal
\* unset, M[i,j] and M[j,i] are the same symbol name_{min+1}{max+1}.
C9_BuilderStructure ==
  op = "construct_explicit_matrix" =>
    LET a == args
        M == ret.value
        sym(r, c) == symbol_func(a.dynamic, Format(a.name, r, c))
    IN  /\ (ret.status = "ValueError") <=>
              (a.n # a.m /\ (a.diagonal # 0 \/ a.symmetric))
        /\ ret.status # "ok" => ret.status = "ValueError" /\ ret.value = None
        /\ (a.n = a.m /\ a.diagonal # 0) =>
              /\ ret.status = "ok"
              /\ M.shape = <<a.n, a.n>>
              /\ DOMAIN M.cells = Cells(a.n, a.n)
              /\ \A p \in Cells(a.n, a.n) :
                    IF p[1] = p[2]
                    THEN M.cells[p] = sym(p[1] + 1, p[1] + 1) /\ M.cells[p] # Zero
                    ELSE M.cells[p] = Zero
              /\ Cardinality({M.cells[<<k, k>>] : k \in 0 .. a.n - 1}) = a.n
        /\ (a.n = a.m /\ a.symmetric /\ a.diagonal = 0) =>
              /\ ret.status = "ok"
              /\ M.shape = <<a.n, a.n>>
              /\ DOMAIN M.cells = Cells(a.n, a.n)
              /\ \A p \in Cells(a.n, a.n) :
                    /\ M.cells[p] = M.cells[<<p[2], p[1]>>]
                    /\ M.cells[p] = sym(Min(p[1], p[2]) + 1, Max(p[1], p[2]) + 1)

\* C9 witness: a 3x3 symmetric build whose lower-left corner repeats x_13.
C9_Witness ==
  /\ op = "construct_explicit_matrix"
  /\ args.n = 3 /\ args.m = 3 /\ args.symmetric /\ args.diagonal = 0
  /\ args.name = "x" /\ ~args.dynamic
  /\ ret.status = "ok"
  /\ ret.value.cells[<<2, 0>>] = "x_13"
  /\ ret.value.cells[<<0, 2>>] = "x_13"

(***************************************************************************)
(* matrix_subs                                                             *)
(***************************************************************************)
\* Python containers: [kind |-> "tuple" | "list", items |-> sequence], and
\* [kind |-> "dict", items |-> sequence of <<key, value>> in insertion order].
Tuple(items) == [kind |-> "tuple", items |-> items]

List(items) == [kind |-> "list", items |-> items]

Dict(items) == [kind |-> "dict", items |-> items]

\* isinstance(o, kinds) for the container kinds; a Matrix is none of them.
IsInstance(o, kinds) == "kind" \in DOMAIN o /\ o.kind \in kinds

IsMatrix(o) == DOMAIN o = {"shape", "cells"}

\* o[k] for an integer k: a list or tuple indexes its items, a dict looks the
\* key k up among its (matrix) keys, a Matrix yields its k-th flat entry.
GetItem(o, k) ==
  IF IsInstance(o, {"list", "tuple"})
  THEN IF k < Len(o.items) THEN Return(o.items[k + 1]) ELSE Raise("IndexError")
  ELSE IF IsInstance(o, {"dict"})
  THEN Raise("KeyError")
  ELSE IF k < o.shape[1] * o.shape[2]
  THEN Return(o.cells[<<k \div o.shape[2], k % o.shape[2]>>])
  ELSE Raise("IndexError")

\* for i in range(shape[0]) for j in range(shape[1]): the cells in scan order.
RowMajor(shape) ==
  [k \in 1 .. shape[1] * shape[2] |-> <<(k - 1) \div shape[2], (k - 1) % shape[2]>>]

\* The entries one sub contributes: (sub[0][i, j], sub[1][i, j]) for every
\* cell with sub[0][i, j] != 0; an exception raised on the way propagates.
RECURSIVE SubEntries(_, _, _, _)
SubEntries(S, sub, order, k) ==
  IF k > Len(order) THEN Return(<<>>)
  ELSE IF S.cells[order[k]] = Zero THEN SubEntries(S, sub, order, k + 1)
  ELSE LET s1 == GetItem(sub, 1)
       IN  IF s1.status # "ok" THEN s1
           ELSE IF ~IsMatrix(s1.value) THEN Raise("TypeError")
           ELSE IF order[k] \notin DOMAIN s1.value.cells THEN Raise("IndexError")
           ELSE LET rest == SubEntries(S, sub, order, k + 1)
                IN  IF rest.status # "ok" THEN rest
                    ELSE Return(<<<<S.cells[order[k]], s1.value.cells[order[k]]>>>>
                                \o rest.value)

\* for sub in subs: ... ; sub[0].shape needs sub[0] to be a Matrix.
RECURSIVE Entries(_, _)
Entries(subs, n) ==
  IF n > Len(subs) THEN Return(<<>>)
  ELSE LET s0 == GetItem(subs[n], 0)
       IN  IF s0.status # "ok" THEN s0
           ELSE IF ~IsMatrix(s0.value) THEN Raise("AttributeError")
           ELSE LET here == SubEntries(s0.value, subs[n], RowMajor(s0.value.shape), 1)
                IN  IF here.status # "ok" THEN here
                    ELSE LET rest == Entries(subs, n + 1)
                         IN  IF rest.status # "ok" THEN rest
                             ELSE Return(here.value \o rest.value)

\* {k: v for ...}: a later entry with the same key replaces the value.
RECURSIVE DictOf(_, _)
DictOf(entries, n) ==
  IF n = 0 THEN <<>>
  ELSE LET d == DictOf(entries, n - 1)
           e == entries[n]
       IN  [key \in DOMAIN d \cup {e[1]} |-> IF key = e[1] THEN e[2] ELSE d[key]]

\* The wrapping test without the isinstance check on the first argument.
matrix_subs_wrapAnyTwo(subs) ==
  LET subs1 == IF Len(subs.items) = 2 THEN List(<<subs>>) ELSE subs
  IN  IF IsInstance(subs1, {"list", "tuple"})
      THEN LET r == Entries(subs1.items, 1)
           IN  IF r.status # "ok" THEN r ELSE Return(Tuple(r.value))
      ELSE Return(None)

\* matrix_subs(*subs): subs is the tuple of the positional arguments.
matrix_subs(subs) ==
  LET subs1 == IF /\ Len(subs.items) = 2
                  /\ ~IsInstance(subs.items[1], {"list", "tuple", "dict"})
               THEN List(<<subs>>)
               ELSE subs
  IN  IF IsInstance(subs1, {"list", "tuple"})
      THEN LET r == Entries(subs1.items, 1)
           IN  IF r.status # "ok" THEN r ELSE Return(Tuple(r.value))
      ELSE IF IsInstance(subs1, {"dict"})
      THEN LET r == Entries([n \in 1 .. Len(subs1.items) |-> Tuple(subs1.items[n])], 1)
           IN  IF r.status # "ok" THEN r
               ELSE Return([kind |-> "dict", map |-> DictOf(r.value, Len(r.value))])
      ELSE Return(None)

\* Symbolic matrices as the builder makes them: full, symmetric and diagonal.
SymbolicMatrices ==
  {construct_explicit_matrix("x", n, m, sy, dg, FALSE).value :
     <<n, m, sy, dg>> \in
       {q \in (1 .. MaxDim) \X (1 .. MaxDim) \X BOOLEAN \X {0, 1} :
          q[1] = q[2] \/ (~q[3] /\ q[4] = 0)}}

ValueBases == {100, 200}

\* A value matrix of the given shape with a different number in every cell.
ValueMatrix(shape, base) ==
  Matrix(shape[1], shape[2],
         [p \in Cells(shape[1], shape[2]) |-> base + 10 * p[1] + p[2]])

SubsPairs ==
  {<<S, ValueMatrix(S.shape, b)>> : S \in SymbolicMatrices, b \in ValueBases}

PairSeqs == UNION {[1 .. k -> SubsPairs] : k \in 1 .. MaxPairs}

\* matrix_subs(S, V)
CallSubsTwoMatrices ==
  /\ op = "init"
  /\ \E pr \in SubsPairs :
    /\ op' = "matrix_subs"
    /\ args' = [form |-> "two matrices", pairs |-> <<pr>>, subs |-> Tuple(pr)]
    /\ t' = NoTime
    /\ closure' = None
    /\ ret' = matrix_subs(args'.subs)

\* matrix_subs((S1, V1), ..., (Sk, Vk))
CallSubsPairs ==
  /\ op = "init"
  /\ \E prs \in PairSeqs :
    /\ op' = "matrix_subs"
    /\ args' = [form |-> "pairs", pairs |-> prs,
                subs |-> Tuple([n \in 1 .. Len(prs) |-> Tuple(prs[n])])]
    /\ t' = NoTime
    /\ closure' = None
    /\ ret' = matrix_subs(args'.subs)

\* matrix_subs({S1: V1, ..., Sk: Vk}); the keys of a dict are distinct.
CallSubsDict ==
  /\ op = "init"
  /\ \E prs \in PairSeqs :
    /\ \A a, b \in 1 .. Len(prs) : a # b => prs[a][1] # prs[b][1]
    /\ op' = "matrix_subs"
    /\ args' = [form |-> "dict", pairs |-> prs, subs |-> Tuple(<<Dict(prs)>>)]
    /\ t' = NoTime
    /\ closure' = None
    /\ ret' = matrix_subs(args'.subs)

NextSubs == CallSubsTwoMatrices \/ CallSubsPairs \/ CallSubsDict

SpecSubs == Init /\ [][NextSubs]_vars

\* The nonzero symbolic positions of a call, <<pair number, i, j>>.
NonzeroKeys(prs) ==
  UNION {{<<n, p[1], p[2]>> :
            p \in {q \in DOMAIN prs[n][1].cells : prs[n][1].cells[q] # Zero}} :
         n \in 1 .. Len(prs)}

\* pair order first, then row, then column
Before(a, b) ==
  \/ a[1] < b[1]
  \/ a[1] = b[1] /\ a[2] < b[2]
  \/ a[1] = b[1] /\ a[2] = b[2] /\ a[3] < b[3]

\* C6: for a single pair or a sequence of pairs, matrix_subs returns a flat
\* tuple holding exactly one entry (symbolic[i,j], value[i,j]) per nonzero
\* symbolic position, pairs in the given order and positions in row-major
\* order; its length is the number of nonzero symbolic entries, repeated
\* symbols included.
C6_SubsTuple ==
  (op = "matrix_subs" /\ args.form \in {"two matrices", "pairs"}) =>
    LET prs == args.pairs
        keys == NonzeroKeys(prs)
        rank(key) == 1 + Cardinality({o \in keys : Before(o, key)})
    IN  /\ ret.status = "ok"
        /\ ret.value.kind = "tuple"
        /\ Len(ret.value.items) = Cardinality(keys)
        /\ \A key \in keys :
             ret.value.items[rank(key)] =
               <<prs[key[1]][1].cells[<<key[2], key[3]>>],
                 prs[key[1]][2].cells[<<key[2], key[3]>>]>>

\* C6 witness: two pairs sharing symbols, the first diagonal (zeros skipped),
\* flattened to 2 + 4 entries with x_11 entered twice.
C6_Witness ==
  /\ op = "matrix_subs" /\ args.form = "pairs" /\ Len(args.pairs) = 2
  /\ args.pairs[1][1] = construct_explicit_matrix("x", 2, 2, FALSE, 1, FALSE).value
  /\ args.pairs[2][1] = construct_explicit_matrix("x", 2, 2, TRUE, 0, FALSE).value
  /\ ret.status = "ok"
  /\ Len(ret.value.items) = 6
  /\ ret.value.items[1] = <<"x_11", 100>>
  /\ ret.value.items[3] = <<"x_11", 200>>

\* C7: for a mapping from symbolic matrix to value matrix, matrix_subs returns
\* a mapping with a key for every nonzero symbolic entry and none for a zero,
\* each symbol mapped to the value at its last occurrence visited.
C7_SubsMapping ==
  (op = "matrix_subs" /\ args.form = "dict") =>
    LET prs == args.pairs
        keys == NonzeroKeys(prs)
        symAt(key) == prs[key[1]][1].cells[<<key[2], key[3]>>]
        last(s) == CHOOSE key \in keys :
                     /\ symAt(key) = s
                     /\ \A o \in keys : symAt(o) = s => (o = key \/ Before(o, key))
    IN  /\ ret.status = "ok"
        /\ ret.value.kind = "dict"
        /\ DOMAIN ret.value.map = {symAt(key) : key \in keys}
        /\ Zero \notin DOMAIN ret.value.map
        /\ \A s \in DOMAIN ret.value.map :
             ret.value.map[s] =
               prs[last(s)[1]][2].cells[<<last(s)[2], last(s)[3]>>]

(***************************************************************************)
(* matrix_callable_from_vector_trajectory                                  *)
(***************************************************************************)
\* A numpy array is [shape |-> sequence, cells |-> f], f from index tuples.
RECURSIVE IndexTuples(_)
IndexTuples(shape) ==
  IF shape = <<>> THEN {<<>>}
  ELSE {<<k>> \o rest : k \in 0 .. shape[1] - 1, rest \in IndexTuples(Tail(shape))}

\* np.zeros(shape), np.matlib.zeros(shape); numpy.matlib is taken to be loaded.
zeros(shape) == [shape |-> shape, cells |-> [q \in IndexTuples(shape) |-> 0]]

\* sp.flatten(m.tolist()): the entries in row-major order
flatten(m) == [k \in 1 .. m.shape[1] * m.shape[2] |-> m.cells[RowMajor(m.shape)[k]]]

\* list.index(s): the first position holding s, ValueError when there is none.
\* This variant counts positions from one.
ListIndex_fromOne(list, s) ==
  IF \E k \in 1 .. Len(list) : list[k] = s
  THEN Return(CHOOSE k \in 1 .. Len(list) :
                list[k] = s /\ \A l \in 1 .. k - 1 : list[l] # s)
  ELSE Raise("ValueError: not in list")

ListIndex(list, s) ==
  IF \E k \in 1 .. Len(list) : list[k] = s
  THEN Return((CHOOSE k \in 1 .. Len(list) :
                 list[k] = s /\ \A l \in 1 .. k - 1 : list[l] # s) - 1)
  ELSE Raise("ValueError: not in list")

\* callable_from_trajectory(tt, x): the interpolant through the samples,
\* evaluated at sample times.  A scalar time, or a single time in a sequence,
\* gives the n values at that time; k > 1 times give a k x n array, one row
\* per time like the samples.
vector_callable(tt, x, time) ==
  LET row(tm) == CHOOSE r \in 0 .. Len(tt) - 1 : tt[r + 1] = tm
      n == x.shape[2]
  IN  IF time.kind = "scalar" \/ Len(time.v) = 1
      THEN [shape |-> <<n>>,
            cells |-> [q \in IndexTuples(<<n>>) |-> x.cells[<<row(time.v[1]), q[1]>>]]]
      ELSE [shape |-> <<Len(time.v), n>>,
            cells |-> [q \in IndexTuples(<<Len(time.v), n>>) |->
                         x.cells[<<row(time.v[q[1] + 1]), q[2]>>]]]

\* a[idx]: indexing the first axis of an array
IndexFirst(a, idx) ==
  IF a.shape = <<>> \/ idx >= a.shape[1] THEN Raise("IndexError")
  ELSE Return([shape |-> Tail(a.shape),
               cells |-> [q \in IndexTuples(Tail(a.shape)) |-> a.cells[<<idx>> \o q]]])

\* a[..., i, j] = rhs: rhs is broadcast over the leading axes of a.
AssignEllipsis(a, i, j, rhs) ==
  LET lead == SubSeq(a.shape, 1, Len(a.shape) - 2)
  IN  IF rhs.shape = <<>>
      THEN Return([a EXCEPT !.cells =
             [q \in DOMAIN a.cells |->
                IF q[Len(q) - 1] = i /\ q[Len(q)] = j THEN rhs.cells[<<>>]
                ELSE a.cells[q]]])
      ELSE IF Len(rhs.shape) = 1 /\ Len(lead) = 1 /\ rhs.shape[1] \in {1, lead[1]}
      THEN Return([a EXCEPT !.cells =
             [q \in DOMAIN a.cells |->
                IF q[Len(q) - 1] = i /\ q[Len(q)] = j
                THEN rhs.cells[<<IF rhs.shape[1] = 1 THEN 0 ELSE q[1]>>]
                ELSE a.cells[q]]])
      ELSE Raise("ValueError: could not broadcast")

\* for it in iterator: idx = unraveled.index(raveled[i, j]); assign
RECURSIVE FillLoop(_, _, _, _, _, _)
FillLoop(matrix_result, vector_result, unraveled, raveled, order, k) ==
  IF k > Len(order) THEN Return(matrix_result)
  ELSE LET i == order[k][1]
           j == order[k][2]
           idx == ListIndex(unraveled, raveled.cells[<<i, j>>])
       IN  IF idx.status # "ok" THEN idx
           ELSE LET rhs == IndexFirst(vector_result, idx.value)
                IN  IF rhs.status # "ok" THEN rhs
                    ELSE LET next == AssignEllipsis(matrix_result, i, j, rhs.value)
                         IN  IF next.status # "ok" THEN next
                             ELSE FillLoop(next.value, vector_result, unraveled,
                                           raveled, order, k + 1)

\* isinstance(t, (list, tuple, np.ndarray)) and len(t) > 1
AsArray(time) == time.kind = "list" /\ Len(time.v) > 1

matrix_callable(cl, time) ==
  LET vector_result == vector_callable(cl.tt, cl.x, time)
      matrix_result == IF AsArray(time)
                       THEN zeros(<<Len(time.v)>> \o cl.raveled.shape)
                       ELSE zeros(cl.raveled.shape)
  IN  FillLoop(matrix_result, vector_result, cl.unraveled, cl.raveled,
               RowMajor(cl.raveled.shape), 1)

matrix_callable_from_vector_trajectory(tt, x, unraveled, raveled) ==
  Return([kind |-> "matrix_callable", tt |-> tt, x |-> x, raveled |-> raveled,
          unraveled |-> IF IsMatrix(unraveled) THEN flatten(unraveled)
                        ELSE unraveled.items])

Symbols == {"a", "b", "c"}

\* shapes of at most `cells` cells
Shapes(cells) == {sh \in (1 .. cells) \X (1 .. cells) : sh[1] * sh[2] <= cells}

RaveledLayouts ==
  UNION {{Matrix(sh[1], sh[2], f) : f \in [Cells(sh[1], sh[2]) -> Symbols]} :
         sh \in Shapes(MaxCells)}

ColumnMatrix(seq) == Matrix(Len(seq), 1, [p \in Cells(Len(seq), 1) |-> seq[p[1] + 1]])

\* unraveled orders, as lists and as column Matrices; <<"a", "b">> and
\* <<"d", "a", "b">> leave the symbol c of the layouts out
UnraveledOrders ==
  {List(<<"a", "b", "c">>), ColumnMatrix(<<"c", "a", "b">>), List(<<"a", "b">>),
   ColumnMatrix(<<"d", "a", "b">>)}

\* sample times 0 .. NumSamples - 1
SampleTimes == [k \in 1 .. NumSamples |-> k - 1]

\* x: NumSamples x n samples, row s is <<10 s + 1, ..., 10 s + n>>
Samples(n) ==
  [shape |-> <<NumSamples, n>>,
   cells |-> [q \in IndexTuples(<<NumSamples, n>>) |-> 10 * q[1] + q[2] + 1]]

Times ==
  {[kind |-> "scalar", v |-> <<tm>>] : tm \in 0 .. NumSamples - 1} \cup
  UNION {{[kind |-> "list", v |-> v] : v \in [1 .. k -> 0 .. NumSamples - 1]} :
         k \in 1 .. MaxTimes}

CallFromTrajectory ==
  /\ op = "init"
  /\ \E unraveled \in UnraveledOrders, raveled \in RaveledLayouts :
    LET n == IF IsMatrix(unraveled) THEN unraveled.shape[1] ELSE Len(unraveled.items)
    IN  /\ op' = "matrix_callable_from_vector_trajectory"
        /\ args' = [tt |-> SampleTimes, x |-> Samples(n), unraveled |-> unraveled,
                    raveled |-> raveled]
        /\ t' = NoTime
        /\ ret' = matrix_callable_from_vector_trajectory(SampleTimes, Samples(n),
                                                         unraveled, raveled)
        /\ closure' = ret'.value

CallMatrixCallable ==
  /\ op = "matrix_callable_from_vector_trajectory"
  /\ \E time \in Times :
    /\ op' = "matrix_callable"
    /\ t' = time
    /\ ret' = matrix_callable(closure, time)
    /\ UNCHANGED <<args, closure>>

NextTraj == CallFromTrajectory \/ CallMatrixCallable

SpecTraj == Init /\ [][NextTraj]_vars

\* every symbol of the layout has a position in the unraveled order
AllFound(cl) ==
  \A p \in DOMAIN cl.raveled.cells :
    \E k \in 1 .. Len(cl.unraveled) : cl.unraveled[k] = cl.raveled.cells[p]

\* C1: for a scalar time t the callable returns one p x q matrix whose (i,j)
\* entry is component k of the vector interpolant at t, k the position of
\* raveled[i,j] in unraveled, also when a symbol fills several cells.
C1_ScalarReconstruction ==
  (op = "matrix_callable" /\ t.kind = "scalar" /\ AllFound(closure)) =>
    LET at == vector_callable(closure.tt, closure.x, t)
        pos(sym) == CHOOSE k \in 0 .. Len(closure.unraveled) - 1 :
                      closure.unraveled[k + 1] = sym
    IN  /\ ret.status = "ok"
        /\ ret.value.shape = closure.raveled.shape
        /\ DOMAIN ret.value.cells = DOMAIN closure.raveled.cells
        /\ \A p \in DOMAIN closure.raveled.cells :
             ret.value.cells[p] = at.cells[<<pos(closure.raveled.cells[p])>>]

\* C1 witness: unraveled [a, b, c] sampled as [1, 2, 3], layout [[a, b], [b, c]]
\* reconstructed as [[1, 2], [2, 3]].
C1_Witness ==
  /\ op = "matrix_callable" /\ t = [kind |-> "scalar", v |-> <<0>>]
  /\ closure.unraveled = <<"a", "b", "c">>
  /\ closure.raveled.shape = <<2, 2>>
  /\ closure.raveled.cells[<<0, 0>>] = "a" /\ closure.raveled.cells[<<0, 1>>] = "b"
  /\ closure.raveled.cells[<<1, 0>>] = "b" /\ closure.raveled.cells[<<1, 1>>] = "c"
  /\ ret.status = "ok"
  /\ ret.value.cells[<<0, 0>>] = 1 /\ ret.value.cells[<<0, 1>>] = 2
  /\ ret.value.cells[<<1, 0>>] = 2 /\ ret.value.cells[<<1, 1>>] = 3

C4_MissingSymbolRaisesScalar ==
  (op = "matrix_callable" /\ ~AllFound(closure) /\ ~AsArray(t)) =>
    ret.status = "ValueError: not in list" /\ ret.value = None

\* C4: with a symbol missing no call returns a matrix, whatever the error.
C4_MissingSymbolNoMatrix ==
  (op = "matrix_callable" /\ ~AllFound(closure)) =>
    ret.status # "ok" /\ ret.value = None

\* the scalar call at the s-th time of a batch
ScalarCall(cl, tm) == matrix_callable(cl, [kind |-> "scalar", v |-> <<tm>>])

C5_SingleTimeIsScalar ==
  (op = "matrix_callable" /\ t.kind = "list" /\ Len(t.v) = 1 /\ AllFound(closure)) =>
    /\ ret.status = "ok"
    /\ ret.value.shape = closure.raveled.shape
    /\ ret = ScalarCall(closure, t.v[1])

(***************************************************************************)
(* system_from_matrix_DE                                                   *)
(***************************************************************************)
\* list(set(entries)): the distinct entries in an order the set chooses
SetOrders(entries) ==
  LET S == {entries[k] : k \in 1 .. Len(entries)}
  IN  {f \in [1 .. Cardinality(S) -> S] : \A e \in S : \E k \in DOMAIN f : f[k] = e}

\* m[i, j] of a sympy Matrix: IndexError outside its shape
MatrixGet(m, i, j) ==
  IF i < m.shape[1] /\ j < m.shape[2] THEN Return(m.cells[<<i, j>>])
  ELSE Raise("IndexError")

\* The loop keeping the first expression written for a state variable.
RECURSIVE DELoop_firstWins(_, _, _, _, _, _)
DELoop_firstWins(vec_DE, vec_var, mat_DE, mat_var, order, k) ==
  IF k > Len(order) THEN Return(vec_DE)
  ELSE LET i == order[k][1]
           j == order[k][2]
           v == MatrixGet(mat_var, i, j)
       IN  IF v.status # "ok" THEN v
           ELSE LET idx == ListIndex(vec_var, v.value)
                IN  IF idx.status # "ok" THEN idx
                    ELSE DELoop_firstWins(
                           IF vec_DE[idx.value + 1] = Zero
                           THEN [vec_DE EXCEPT ![idx.value + 1] = mat_DE.cells[<<i, j>>]]
                           ELSE vec_DE,
                           vec_var, mat_DE, mat_var, order, k + 1)

\* for it in iterator: idx = vec_var.index(mat_var[i, j]); vec_DE[idx] = mat_DE[i, j]
RECURSIVE DELoop(_, _, _, _, _, _)
DELoop(vec_DE, vec_var, mat_DE, mat_var, order, k) ==
  IF k > Len(order) THEN Return(vec_DE)
  ELSE LET i == order[k][1]
           j == order[k][2]
           v == MatrixGet(mat_var, i, j)
       IN  IF v.status # "ok" THEN v
           ELSE LET idx == ListIndex(vec_var, v.value)
                IN  IF idx.status # "ok" THEN idx
                    ELSE DELoop([vec_DE EXCEPT ![idx.value + 1] = mat_DE.cells[<<i, j>>]],
                                vec_var, mat_DE, mat_var, order, k + 1)

\* the distinct entries in the order the row-major scan first meets them
RECURSIVE FirstSeen(_)
FirstSeen(entries) ==
  IF entries = <<>> THEN <<>>
  ELSE LET init == FirstSeen(SubSeq(entries, 1, Len(entries) - 1))
           e == entries[Len(entries)]
       IN  IF \E k \in 1 .. Len(init) : init[k] = e THEN init ELSE Append(init, e)

\* The conversion indexing by scan order, as if the set kept that order.
system_from_matrix_DE_scanOrder(mat_DE, mat_var, vec_var) ==
  LET vec_DE == DELoop([k \in 1 .. Len(vec_var) |-> Zero], FirstSeen(flatten(mat_var)),
                       mat_DE, mat_var, RowMajor(mat_DE.shape), 1)
  IN  IF vec_DE.status # "ok" THEN vec_DE
      ELSE Return([kind |-> "DynamicalSystem", state_equation |-> vec_DE.value,
                   state |-> vec_var])

\* vec_var is the order list(set(...)) produced for this call.
system_from_matrix_DE(mat_DE, mat_var, vec_var) ==
  LET vec_DE == DELoop([k \in 1 .. Len(vec_var) |-> Zero], vec_var, mat_DE, mat_var,
                       RowMajor(mat_DE.shape), 1)
  IN  IF vec_DE.status # "ok" THEN vec_DE
      ELSE Return([kind |-> "DynamicalSystem", state_equation |-> vec_DE.value,
                   state |-> vec_var])

\* state-variable matrices: symbols and structural zeros
VarMatrices ==
  UNION {{Matrix(sh[1], sh[2], f) : f \in [Cells(sh[1], sh[2]) -> Symbols \cup {Zero}]} :
         sh \in Shapes(MaxVarCells)}

\* a matrix of derivative expressions, a different one in every cell
ExprMatrix(sh) ==
  Matrix(sh[1], sh[2],
         [p \in Cells(sh[1], sh[2]) |-> "f_" \o ToString(p[1]) \o ToString(p[2])])

CallSystemFromMatrixDE ==
  /\ op = "init"
  /\ \E mat_var \in VarMatrices :
    \E vec_var \in SetOrders(flatten(mat_var)), sh \in Shapes(MaxVarCells) :
      /\ op' = "system_from_matrix_DE"
      /\ args' = [mat_DE |-> ExprMatrix(sh), mat_var |-> mat_var]
      /\ t' = NoTime
      /\ closure' = None
      /\ ret' = system_from_matrix_DE(ExprMatrix(sh), mat_var, vec_var)

NextDE == CallSystemFromMatrixDE

SpecDE == Init /\ [][NextDE]_vars

\* the entries of a matrix, and the cells holding a given entry
EntriesOf(m) == {m.cells[p] : p \in DOMAIN m.cells}

CellsOf(m, e) == {p \in DOMAIN m.cells : m.cells[p] = e}

\* the cell of the set scanned last in row-major order
LastCell(ps) ==
  CHOOSE p \in ps : \A q \in ps : q[1] < p[1] \/ (q[1] = p[1] /\ q[2] <= p[2])

SameShape == args.mat_DE.shape = args.mat_var.shape

\* C2: for a same-shaped mat_var holding each of n symbols exactly once, the
\* state vector is a permutation of the n symbols, the derivative vector has
\* length n, and its entry i is mat_DE at the one cell of the i-th state
\* symbol, whatever order the deduplication chose.
C2_OrderIndependent ==
  (/\ op = "system_from_matrix_DE" /\ SameShape
   /\ Zero \notin EntriesOf(args.mat_var)
   /\ \A e \in EntriesOf(args.mat_var) : Cardinality(CellsOf(args.mat_var, e)) = 1) =>
    LET n == Cardinality(DOMAIN args.mat_var.cells)
    IN  /\ ret.status = "ok"
        /\ Len(ret.value.state) = n
        /\ {ret.value.state[k] : k \in 1 .. n} = EntriesOf(args.mat_var)
        /\ Len(ret.value.state_equation) = n
        /\ \A k \in 1 .. n :
             \E p \in CellsOf(args.mat_var, ret.value.state[k]) :
               ret.value.state_equation[k] = args.mat_DE.cells[p]

\* C2 witness: the 1x3 layout a, b, c deduplicated into the order c, a, b, the
\* derivative expressions following their symbols.
C2_Witness ==
  /\ op = "system_from_matrix_DE"
  /\ args.mat_var.shape = <<1, 3>> /\ SameShape
  /\ flatten(args.mat_var) = <<"a", "b", "c">>
  /\ ret.status = "ok"
  /\ ret.value.state = <<"c", "a", "b">>
  /\ ret.value.state_equation = <<"f_02", "f_00", "f_01">>

\* C3: whenever the shapes of mat_DE and mat_var differ the call fails and
\* no DynamicalSystem is constructed or returned.
C3_ShapeMismatchRaises ==
  (op = "system_from_matrix_DE" /\ ~SameShape) =>
    ret.status # "ok" /\ ret.value = None

\* C8: for a same-shaped mat_var of symbols with a symbol s at two or more
\* cells, state and derivative vectors have one entry per distinct symbol, s
\* sits at exactly one position, and the derivative there is mat_DE at the
\* last cell of s in row-major scan order.
C8_DuplicateLastWins ==
  (/\ op = "system_from_matrix_DE" /\ SameShape
   /\ Zero \notin EntriesOf(args.mat_var)
   /\ \E e \in EntriesOf(args.mat_var) : Cardinality(CellsOf(args.mat_var, e)) >= 2) =>
    LET n == Cardinality(EntriesOf(args.mat_var))
    IN  /\ ret.status = "ok"
        /\ Len(ret.value.state) = n
        /\ Len(ret.value.state_equation) = n
        /\ \A s \in EntriesOf(args.mat_var) :
             Cardinality(CellsOf(args.mat_var, s)) >= 2 =>
               /\ Cardinality({k \in 1 .. n : ret.value.state[k] = s}) = 1
               /\ \A k \in 1 .. n :
                    ret.value.state[k] = s =>
                      ret.value.state_equation[k] =
                        args.mat_DE.cells[LastCell(CellsOf(args.mat_var, s))]

\* C8 witness: the symmetric layout [[a, b], [b, c]]: three state variables,
\* b taking the expression of cell (1, 0), visited after cell (0, 1).
C8_Witness ==
  /\ op = "system_from_matrix_DE"
  /\ args.mat_var.shape = <<2, 2>> /\ SameShape
  /\ flatten(args.mat_var) = <<"a", "b", "b", "c">>
  /\ ret.status = "ok"
  /\ ret.value.state = <<"b", "c", "a">>
  /\ ret.value.state_equation = <<"f_10", "f_11", "f_00">>

\* C10: for a same-shaped mat_var of symbols and structural zeros, no zero
\* becomes a state variable, state and derivative vectors have one entry per
\* distinct symbol, and no mat_DE cell over a zero of mat_var is placed in
\* the derivative vector.
C10_ZeroNeverState ==
  (op = "system_from_matrix_DE" /\ SameShape) =>
    LET syms == EntriesOf(args.mat_var) \ {Zero}
    IN  /\ ret.status = "ok"
        /\ \A k \in 1 .. Len(ret.value.state) : ret.value.state[k] \in syms
        /\ Len(ret.value.state) = Cardinality(syms)
        /\ Len(ret.value.state_equation) = Cardinality(syms)
        /\ \A k \in 1 .. Len(ret.value.state_equation) :
             \A p \in CellsOf(args.mat_var, Zero) :
               ret.value.state_equation[k] # args.mat_DE.cells[p]

(***************************************************************************)
(* The module as a whole: any one of its functions may be called.          *)
(***************************************************************************)
Next == NextBuilder \/ NextSubs \/ NextTraj \/ NextDE

Spec == Init /\ [][Next]_vars

====
